---------------------------- MODULE Spec2Model ----------------------------
(***************************************************************************)
(* A model of the UPnPLib object tree (dltoth/UPnPLib): UPnPObject,        *)
(* UPnPService, UPnPDevice and RootDevice, their attach operations         *)
(* (addService, addDevice), setTarget, getPath, rootDevice and the wiring  *)
(* of the tree into a WebContext (setup, with late binding).               *)
(*                                                                         *)
(* C strings are modelled as sequences of one-character strings, so that   *)
(* formatting (snprintf, sprintf "%d"), copying with truncation (strlcpy)  *)
(* and concatenation are computed, not assumed.                            *)
(***************************************************************************)
EXTENDS Integers, Sequences, FiniteSets, Bags, TLC

(***************************************************************************)
(* Program constants.                                                      *)
(***************************************************************************)
TARGET_SIZE == 32
MAX_SERVICES == 8
MAX_DEVICES == 8
UUID_SIZE == 37
PATH_BUFFER_SIZE == 100
DISPLAY_SIZE == 1280
\* The buffer printInfo passes to location.
PrintInfoSize == 128

(***************************************************************************)
(* Bounds of the model.                                                    *)
(***************************************************************************)
\* Number of calls explored by the tree specification.
MaxOps == 3
\* Number of setup calls explored by the capacity specification.
MaxSetup == 1
\* Number of single attach calls explored by the capacity specification.
MaxExtra == 1
\* Number of arguments of the addDevices and addServices calls of the
\* capacity specification.
FillBatch == 4
\* Length of the paths encodePath is called with in the text specification.
MaxPathLen == 3
\* Number of setUUID and addDevice calls explored by the UUID specification.
MaxUUIDOps == 4
\* Number of addDevice, addService and setup calls explored by the view
\* specification.
MaxViewOps == 4
\* Number of addDevice and addService calls explored by the index
\* specification.
MaxIndexOps == 2
\* Number of RootDevice constructions and addDevice calls explored by the
\* seed specification.
MaxSeedOps == 5
\* A location buffer too small for a URL, and a display buffer that two
\* controls fill.
SmallLocationSize == 16
SmallDisplaySize == 48

(***************************************************************************)
(* The objects of the model.  Each is built by one constructor call, see   *)
(* Init.                                                                   *)
(***************************************************************************)
NULL == "NULL"
\* The position of a UUID that did not come from the rand() stream.
NotDrawn == 0 - 1
Roots == {"r1", "r2"}
PlainDevices == {"d1"}
Services == {"s1", "s2"}
Devices == Roots \cup PlainDevices
Nodes == Devices \cup Services
Contexts == {"c1"}

\* The example classes: one CustomDevice, and the CustomService it holds as a
\* member.  They take part in the query specification only.
CustomDevices == {"d2"}
CustomServices == {"cs"}
AllDevices == Devices \cup CustomDevices
AllServices == Services \cup CustomServices
AllNodes == AllDevices \cup AllServices

\* The classes with run-time type identification, each one's base class
\* (class C : public B) and the class its type check passes the tag on to
\* (DERIVED_TYPE_CHECK(B); BASE_TYPE_CHECK passes it to none).
Classes ==
  {"UPnPObject", "UPnPService", "UPnPDevice", "RootDevice", "CustomDevice",
   "CustomService"}

BaseClass(c) ==
  CASE c = "UPnPService" -> "UPnPObject"
    [] c = "UPnPDevice" -> "UPnPObject"
    [] c = "RootDevice" -> "UPnPDevice"
    [] c = "CustomDevice" -> "UPnPDevice"
    [] c = "CustomService" -> "UPnPService"
    [] OTHER -> NULL

\* A faulty RootDevice that declares DERIVED_TYPE_CHECK(UPnPObject).
TypeCheckBase_RootSkipsDevice(c) ==
  CASE c = "UPnPService" -> "UPnPObject"
    [] c = "UPnPDevice" -> "UPnPObject"
    [] c = "RootDevice" -> "UPnPObject"
    [] c = "CustomDevice" -> "UPnPDevice"
    [] c = "CustomService" -> "UPnPService"
    [] OTHER -> NULL

TypeCheckBase(c) ==
  CASE c = "UPnPService" -> "UPnPObject"
    [] c = "UPnPDevice" -> "UPnPObject"
    [] c = "RootDevice" -> "UPnPDevice"
    [] c = "CustomDevice" -> "UPnPDevice"
    [] c = "CustomService" -> "UPnPService"
    [] OTHER -> NULL

ClassOf(n) ==
  CASE n \in Roots -> "RootDevice"
    [] n \in PlainDevices -> "UPnPDevice"
    [] n \in Services -> "UPnPService"
    [] n \in CustomDevices -> "CustomDevice"
    [] n \in CustomServices -> "CustomService"

(***************************************************************************)
(* Strings.                                                                *)
(***************************************************************************)
Min(a, b) == IF a < b THEN a ELSE b

S_empty == << >>
S_root == <<"r", "o", "o", "t">>
S_service == <<"s", "e", "r", "v", "i", "c", "e">>
S_device == <<"d", "e", "v", "i", "c", "e">>
S_d == <<"d">>
S_s == <<"s">>
S_slash_d == <<"/", "d">>
S_styles == <<"/", "s", "t", "y", "l", "e", "s", ".", "c", "s", "s">>
S_customDevice == <<"c", "u", "s", "t", "o", "m", "D", "e", "v", "i", "c", "e">>
S_customService ==
  <<"c", "u", "s", "t", "o", "m", "S", "e", "r", "v", "i", "c", "e">>
S_getMsg == <<"g", "e", "t", "M", "s", "g">>
S_slash == <<"/">>

\* The first n characters of s: what fits in a buffer with room for n.
Take(s, n) == SubSeq(s, 1, Min(Len(s), n))

\* strlcpy(dst, src, size): copies at most size-1 characters.
strlcpy(src, size) == Take(src, size - 1)

\* snprintf(buffer, size, ...): the formatted text, cut to size-1 characters.
snprintf(size, text) == Take(text, size - 1)

DigitChar(k) == <<"0", "1", "2", "3", "4", "5", "6", "7", "8", "9">>[k + 1]

\* printf's "%d" of a non-negative int.
RECURSIVE FormatInt(_)
FormatInt(n) ==
  IF n < 10 THEN <<DigitChar(n)>>
  ELSE FormatInt(n \div 10) \o <<DigitChar(n % 10)>>

(***************************************************************************)
(* UPnPObject::encodePath.                                                 *)
(***************************************************************************)
\* A faulty encodePath that encodes '+' as its own code, "%2B".
EncodeChar_PlusAsItself(ch) ==
  CASE ch = "/" -> <<"%", "2", "F">>
    [] ch = "?" -> <<"%", "3", "F">>
    [] ch = "=" -> <<"%", "3", "D">>
    [] ch = "&" -> <<"%", "2", "6">>
    [] ch = "+" -> <<"%", "2", "B">>
    [] OTHER -> <<ch>>

\* What one pass of the loop body stores for the character ch.
EncodeChar(ch) ==
  CASE ch = "/" -> <<"%", "2", "F">>
    [] ch = "?" -> <<"%", "3", "F">>
    [] ch = "=" -> <<"%", "3", "D">>
    [] ch = "&" -> <<"%", "2", "6">>
    [] ch = "+" -> <<"%", "2", "0">>
    [] OTHER -> <<ch>>

\* for(int i=0; (j<bufferSize)&&(i<pathSize); i++): stored is what has been
\* stored at buffer[0..j-1], i the 1-based position of the next character.
RECURSIVE EncodeLoop(_, _, _, _)
EncodeLoop(path, i, stored, bufferSize) ==
  IF Len(stored) < bufferSize /\ i <= Len(path)
  THEN EncodeLoop(path, i + 1, stored \o EncodeChar(path[i]), bufferSize)
  ELSE stored

\* The string left in the buffer, and whether a store fell outside
\* buffer[0..bufferSize-1]: the loop tests j only before a character, which
\* may store three, and with bufferSize 0 the terminator goes to
\* buffer[bufferSize-1].
encodePath(bufferSize, path) ==
  LET stored == EncodeLoop(path, 1, << >>, bufferSize)
  IN  [text |-> IF Len(stored) < bufferSize THEN stored
                ELSE Take(stored, bufferSize - 1),
       overrun |-> Len(stored) > bufferSize \/ bufferSize = 0]

(***************************************************************************)
(* UUID generation.  rand() is the C library's generator: a deterministic  *)
(* stream that srand() restarts.  RandAt(k) stands for the k-th value of   *)
(* the stream after srand(getChipID()); getChipID() is one fixed number on *)
(* a given chip.                                                           *)
(***************************************************************************)
RandSeed == 4711
RandModulus == 65537
RandMultiplier == 75
RandIncrement == 74

RECURSIVE RandAt(_)
RandAt(k) ==
  IF k = 0 THEN RandSeed
  ELSE (RandAt(k - 1) * RandMultiplier + RandIncrement) % RandModulus

\* (unsigned char) rand() % 255, for the value r of rand(): the cast binds
\* first.
RandomByte(r) == (r % 256) % 255

\* a[i] = (unsigned char) rand() % 255
getRandomBytes(pos, len) == [i \in 1..len |-> RandomByte(RandAt(pos + i))]

HexChar(k) ==
  <<"0", "1", "2", "3", "4", "5", "6", "7", "8", "9",
    "a", "b", "c", "d", "e", "f">>[k + 1]

\* printf's "%02x" of an unsigned char.
FormatHex2(b) == <<HexChar(b \div 16), HexChar(b % 16)>>

RECURSIVE FormatHexBytes(_, _, _)
FormatHexBytes(bytes, from, to) ==
  IF from > to THEN << >>
  ELSE FormatHex2(bytes[from]) \o FormatHexBytes(bytes, from + 1, to)

\* A faulty generateUUID that sets the version and leaves the variant byte.
SetVersionAndVariant_VersionOnly(bytes) ==
  [bytes EXCEPT ![7] = (bytes[7] % 16) + 64]

\* uuid[6] = (uuid[6] & 0x0F) | 0x40 and uuid[8] = (uuid[8] & 0x3F) | 0x80;
\* the C array is 0-based, the sequence 1-based.
SetVersionAndVariant(bytes) ==
  [bytes EXCEPT ![7] = (bytes[7] % 16) + 64, ![9] = (bytes[9] % 64) + 128]

\* generateUUID from the 16 bytes getRandomBytes has stored.
FormatUUID(bytes) ==
  LET u == SetVersionAndVariant(bytes)
      s == FormatHexBytes(u, 1, 4) \o <<"-">> \o FormatHexBytes(u, 5, 6)
           \o <<"-">> \o FormatHexBytes(u, 7, 8) \o <<"-">>
           \o FormatHexBytes(u, 9, 10) \o <<"-">> \o FormatHexBytes(u, 11, 16)
  IN  Take(s, UUID_SIZE - 1)

generateUUID(pos) == FormatUUID(getRandomBytes(pos, 16))

(***************************************************************************)
(* isValidUUID.                                                            *)
(***************************************************************************)
\* A faulty isxdigit that knows the lowercase digits only.
isxdigit_LowerOnly(ch) ==
  ch \in {"0", "1", "2", "3", "4", "5", "6", "7", "8", "9",
          "a", "b", "c", "d", "e", "f"}

\* The C library's isxdigit.
isxdigit(ch) ==
  ch \in {"0", "1", "2", "3", "4", "5", "6", "7", "8", "9",
          "a", "b", "c", "d", "e", "f", "A", "B", "C", "D", "E", "F"}

\* for (int i = 0; i < UUID_SIZE-1; i++), from the 0-based position i on.
RECURSIVE UUIDCharsValidFrom(_, _)
UUIDCharsValidFrom(s, i) ==
  IF i >= UUID_SIZE - 1 THEN TRUE
  ELSE IF i \in {8, 13, 18, 23}
       THEN IF s[i + 1] # "-" THEN FALSE ELSE UUIDCharsValidFrom(s, i + 1)
       ELSE IF ~isxdigit(s[i + 1]) THEN FALSE
            ELSE UUIDCharsValidFrom(s, i + 1)

isValidUUID(s) ==
  IF Len(s) # UUID_SIZE - 1 THEN FALSE ELSE UUIDCharsValidFrom(s, 0)

(***************************************************************************)
(* The state of the program.                                               *)
(***************************************************************************)
VARIABLES
  target,     \* UPnPObject::_target of every node
  parent,     \* UPnPObject::_parent of every node, or NULL
  services,   \* UPnPDevice::_services[0.._numServices-1] of every device
  devices,    \* RootDevice::_devices[0.._numDevices-1] of every root
  uuid,       \* UPnPDevice::_uuid of every device
  context,    \* RootDevice::_context of every root, or NULL
  routes,     \* per WebContext, the bag of handlers registered with on()
  randPos,    \* number of rand() calls since the last srand()
  explicit,   \* history: the node's target was given by the caller
  last,       \* history: the call that produced this state
  nOps,       \* history: number of calls counted against MaxOps or MaxExtra
  nSetup,     \* history: number of setup calls
  numTypes,   \* ClassType::_numTypes
  typeID,     \* ClassType::_typeID of every class's _classType, 0 before its
              \* static initializer has run
  textArg,    \* history: the text argument of the last call
  sizeArg,    \* history: the buffer size argument of the last call
  ret,        \* history: what the last call returned
  rng         \* history: the number of srand() calls, and for every device
              \* the position in the rand() stream its UUID was generated
              \* from, NotDrawn for a UUID that was not generated

vars == <<target, parent, services, devices, uuid, context, routes, randPos,
          explicit, last, nOps, nSetup, numTypes, typeID, textArg, sizeArg,
          ret, rng>>

\* The program's objects and the WebContexts as one value.
World ==
  [target |-> target, parent |-> parent, services |-> services,
   devices |-> devices, uuid |-> uuid, context |-> context,
   routes |-> routes, randPos |-> randPos, rng |-> rng]

(***************************************************************************)
(* UPnPObject.                                                             *)
(***************************************************************************)
\* setTarget: one leading '/' is dropped, the rest is copied into _target.
setTargetText(text) ==
  IF Len(text) > 0 /\ text[1] = "/" THEN strlcpy(Tail(text), TARGET_SIZE)
  ELSE strlcpy(text, TARGET_SIZE)

\* A faulty setTarget that drops the handlers registered so far.
setTarget_ForgetsRoutes(w, n, text) ==
  [w EXCEPT !.target[n] = setTargetText(text),
            !.routes = [c \in DOMAIN @ |-> EmptyBag]]

setTarget(w, n, text) == [w EXCEPT !.target[n] = setTargetText(text)]

getParent(w, n) == w.parent[n]

asRootDevice(n) == IF n \in Roots THEN n ELSE NULL

\* The node rootDevice()'s loop stops at after at most fuel steps, or NULL
\* when the loop is still running.
RECURSIVE TopMost(_, _, _)
TopMost(w, n, fuel) ==
  IF getParent(w, n) = NULL THEN n
  ELSE IF fuel = 0 THEN NULL
  ELSE TopMost(w, getParent(w, n), fuel - 1)

\* rootDevice() returns iff the parent chain ends: a chain longer than the
\* number of nodes is a cycle, on which the while loop never ends.
rootDeviceReturns(w, n) == TopMost(w, n, Cardinality(AllNodes)) # NULL

rootDevice(w, n) == asRootDevice(TopMost(w, n, Cardinality(AllNodes)))

\* A faulty getPath that leaves the target of the top of the tree out of the
\* paths below it.
getPathText_OmitRoot(w, n) ==
  IF getParent(w, n) # NULL
  THEN LET d == getParent(w, n)
       IN  IF getParent(w, d) # NULL
           THEN S_slash \o w.target[d] \o S_slash \o w.target[n]
           ELSE S_slash \o w.target[n]
  ELSE S_slash \o w.target[n]

\* A faulty getPath that looks one level up only.
getPathText_ParentOnly(w, n) ==
  IF getParent(w, n) # NULL
  THEN S_slash \o w.target[getParent(w, n)] \o S_slash \o w.target[n]
  ELSE S_slash \o w.target[n]

\* The text getPath formats, before it is cut to the buffer.
getPathText(w, n) ==
  IF getParent(w, n) # NULL
  THEN LET d == getParent(w, n)
       IN  IF getParent(w, d) # NULL
           THEN LET r == getParent(w, d)
                IN  S_slash \o w.target[r] \o S_slash \o w.target[d]
                    \o S_slash \o w.target[n]
           ELSE S_slash \o w.target[d] \o S_slash \o w.target[n]
  ELSE S_slash \o w.target[n]

getPath(w, n, size) == snprintf(size, getPathText(w, n))

(***************************************************************************)
(* Run-time type identification.  A class tag is the address of the        *)
(* class's _classType; ids holds the _typeID of each.                      *)
(***************************************************************************)
\* A faulty constructor that takes the next id and leaves the counter.
ClassType_ctor_NoIncrement(num) == [numTypes |-> num, typeID |-> num + 1]

\* ClassType() {_typeID=++_numTypes;}
ClassType_ctor(num) == [numTypes |-> num + 1, typeID |-> num + 1]

\* ClassType::isClassType of class c's _classType.
ClassType_isClassType(ids, c, t) ==
  IF t # NULL THEN ids[c] = ids[t] ELSE FALSE

\* The virtual isClassType(t) of class c: its own tag, or its base's check.
RECURSIVE isClassType(_, _, _)
isClassType(ids, c, t) ==
  IF TypeCheckBase(c) = NULL THEN ClassType_isClassType(ids, c, t)
  ELSE ClassType_isClassType(ids, c, t) \/ isClassType(ids, TypeCheckBase(c), t)

\* as(t) of node n.
as(ids, n, t) == IF isClassType(ids, ClassOf(n), t) THEN n ELSE NULL

(***************************************************************************)
(* WebContext::on and the setup methods.                                   *)
(***************************************************************************)
Handler(path, node, method) == [path |-> path, node |-> node, method |-> method]

on(w, c, path, node, method) ==
  [w EXCEPT !.routes[c] = @ (+) SetToBag({Handler(path, node, method)})]

UPnPService_setup(w, s, c) ==
  on(w, c, getPath(w, s, PATH_BUFFER_SIZE), s, "handleRequest")

RECURSIVE SetupServices(_, _, _, _)
SetupServices(w, d, c, i) ==
  IF i > Len(w.services[d]) THEN w
  ELSE SetupServices(UPnPService_setup(w, w.services[d][i], c), d, c, i + 1)

UPnPDevice_setup(w, d, c) ==
  SetupServices(on(w, c, getPath(w, d, PATH_BUFFER_SIZE), d, "display"), d, c, 1)

\* A faulty RootDevice::setup that registers "/styles.css" but not "/".
RootRoutes_StylesOnly(w, r, c) == on(w, c, S_styles, r, "styles")

\* The two fixed routes of RootDevice::setup.
RootRoutes(w, r, c) ==
  on(on(w, c, S_styles, r, "styles"), c, S_slash, r, "displayRoot")

RECURSIVE setup(_, _, _)
RECURSIVE SetupDevices(_, _, _, _)
SetupDevices(w, r, c, i) ==
  IF i > Len(w.devices[r]) THEN w
  ELSE SetupDevices(setup(w, w.devices[r][i], c), r, c, i + 1)

RootDevice_setup(w, r, c) ==
  LET w1 == UPnPDevice_setup(w, r, c)
      w2 == [w1 EXCEPT !.context[r] = c]
  IN  SetupDevices(RootRoutes(w2, r, c), r, c, 1)

\* The virtual call d->setup(svr).
setup(w, n, c) ==
  IF n \in Roots THEN RootDevice_setup(w, n, c) ELSE UPnPDevice_setup(w, n, c)

\* setup returns iff its recursion over the held devices ends: a root that
\* holds itself, directly or through other roots, recurses without end.
RECURSIVE setupReturns(_, _, _)
setupReturns(w, n, stack) ==
  IF n \notin Roots THEN TRUE
  ELSE IF n \in stack THEN FALSE
  ELSE \A i \in 1..Len(w.devices[n]) :
         setupReturns(w, w.devices[n][i], stack \cup {n})

(***************************************************************************)
(* UPnPDevice::addService and RootDevice::addDevice.                       *)
(***************************************************************************)
\* if( _numServices < MAX_SERVICES )
CanAddService(w, d) == Len(w.services[d]) < MAX_SERVICES

\* if( strlen(svc->_target) == 0 ) sprintf(svc->_target,"service%d",_numServices)
DefaultServiceTarget(w, d, s) ==
  IF Len(w.target[s]) = 0 THEN S_service \o FormatInt(Len(w.services[d]))
  ELSE w.target[s]

\* _services[_numServices++] = svc; svc->setParent(this)
AttachService(w, d, s) ==
  [w EXCEPT !.services[d] = Append(@, s), !.parent[s] = d]

\* A faulty late binding that consults this device's own context only, as
\* addDevice does, and so never binds a service added to a plain device.
LateBindService_OwnContext(w, d, s) ==
  IF asRootDevice(d) # NULL
  THEN IF w.context[d] # NULL THEN UPnPService_setup(w, s, w.context[d]) ELSE w
  ELSE w

\* The first RootDevice on n's parent chain, n included, or NULL.
RECURSIVE NearestRoot(_, _, _)
NearestRoot(w, n, fuel) ==
  IF asRootDevice(n) # NULL THEN n
  ELSE IF getParent(w, n) = NULL \/ fuel = 0 THEN NULL
  ELSE NearestRoot(w, getParent(w, n), fuel - 1)

\* A faulty late binding that stops at the first RootDevice on the parent
\* chain instead of the top-most ancestor.
LateBindService_NearestRoot(w, d, s) ==
  LET r == NearestRoot(w, d, Cardinality(Nodes))
  IN  IF r # NULL
      THEN IF w.context[r] # NULL THEN UPnPService_setup(w, s, w.context[r]) ELSE w
      ELSE w

\* Late binding: the service is set up on the context of the root device at
\* the top of this device's parent chain, when there is one and it has one.
LateBindService(w, d, s) ==
  IF rootDevice(w, d) # NULL
  THEN IF w.context[rootDevice(w, d)] # NULL
       THEN UPnPService_setup(w, s, w.context[rootDevice(w, d)])
       ELSE w
  ELSE w

addService(w, d, s) ==
  IF s # NULL
  THEN IF CanAddService(w, d)
       THEN LET w1 == [w EXCEPT !.target[s] = DefaultServiceTarget(w, d, s)]
            IN  LateBindService(AttachService(w1, d, s), d, s)
       ELSE w
  ELSE w

\* addService returns iff the rootDevice() call of its late binding does.
addServiceReturns(w, d, s) ==
  (s # NULL /\ CanAddService(w, d)) => rootDeviceReturns(w, d)

\* A faulty capacity test that lets a ninth device in.
CanAddDevice_Inclusive(w, r) == Len(w.devices[r]) <= MAX_DEVICES

\* if( _numDevices < MAX_DEVICES )
CanAddDevice(w, r) == Len(w.devices[r]) < MAX_DEVICES

\* if( strlen(dvc->_target) == 0 ) sprintf(dvc->_target,"device%d",_numDevices)
DefaultDeviceTarget(w, r, d) ==
  IF Len(w.target[d]) = 0 THEN S_device \o FormatInt(Len(w.devices[r]))
  ELSE w.target[d]

\* srand(getChipID()): the stream starts again.
srand(w) == [w EXCEPT !.randPos = 0, !.rng.seeds = @ + 1]

\* generateUUID(dvc->_uuid): the next 16 values of the stream.
generateUUIDInto(w, d) ==
  [w EXCEPT !.uuid[d] = generateUUID(w.randPos),
            !.rng.drawn[d] = w.randPos,
            !.randPos = @ + 16]

\* RootDevice::RootDevice: srand(getChipID()); generateUUID(_uuid);
RootDevice_ctor(w, r) == generateUUIDInto(srand(w), r)

\* A faulty addDevice that generates a UUID whatever the device has.
DefaultUUID_Always(w, d) == generateUUIDInto(w, d)

\* if( strlen(dvc->_uuid) == 0 ) generateUUID(dvc->_uuid)
DefaultUUID(w, d) ==
  IF Len(w.uuid[d]) = 0
  THEN generateUUIDInto(w, d)
  ELSE w

\* _devices[_numDevices++] = dvc; dvc->setParent(this)
AttachDevice(w, r, d) ==
  [w EXCEPT !.devices[r] = Append(@, d), !.parent[d] = r]

\* A faulty addDevice without late binding.
LateBindDevice_Skipped(w, r, d) == w

\* A faulty late binding that sets the device up twice.
LateBindDevice_Twice(w, r, d) ==
  IF w.context[r] # NULL
  THEN setup(setup(w, d, w.context[r]), d, w.context[r])
  ELSE w

\* Late binding: the device is set up on this root's own context.
LateBindDevice(w, r, d) ==
  IF w.context[r] # NULL THEN setup(w, d, w.context[r]) ELSE w

addDevice(w, r, d) ==
  IF d # NULL
  THEN IF CanAddDevice(w, r)
       THEN LET w1 == [w EXCEPT !.target[d] = DefaultDeviceTarget(w, r, d)]
            IN  LateBindDevice(AttachDevice(DefaultUUID(w1, d), r, d), r, d)
       ELSE w
  ELSE w

\* addDevice returns iff the setup call of its late binding does.
addDeviceReturns(w, r, d) ==
  (d # NULL /\ CanAddDevice(w, r) /\ w.context[r] # NULL)
    => setupReturns(AttachDevice(w, r, d), d, {})

\* The variadic addServices(ptr, args...) and addDevices(ptr, args...): one
\* addService or addDevice call per argument, in order.
RECURSIVE addServices(_, _, _)
addServices(w, d, ss) ==
  IF Len(ss) = 0 THEN w
  ELSE addServices(addService(w, d, Head(ss)), d, Tail(ss))

RECURSIVE addServicesReturns(_, _, _)
addServicesReturns(w, d, ss) ==
  IF Len(ss) = 0 THEN TRUE
  ELSE /\ addServiceReturns(w, d, Head(ss))
       /\ addServicesReturns(addService(w, d, Head(ss)), d, Tail(ss))

RECURSIVE addDevices(_, _, _)
addDevices(w, r, ds) ==
  IF Len(ds) = 0 THEN w
  ELSE addDevices(addDevice(w, r, Head(ds)), r, Tail(ds))

RECURSIVE addDevicesReturns(_, _, _)
addDevicesReturns(w, r, ds) ==
  IF Len(ds) = 0 THEN TRUE
  ELSE /\ addDeviceReturns(w, r, Head(ds))
       /\ addDevicesReturns(addDevice(w, r, Head(ds)), r, Tail(ds))

(***************************************************************************)
(* Construction.                                                           *)
(*   r1 = RootDevice()        r2 = RootDevice("d")                         *)
(*   d1 = UPnPDevice()                                                     *)
(*   s1 = UPnPService("s")    s2 = UPnPService()                           *)
(*   d2 = CustomDevice(), whose member cs = CustomService() its            *)
(*   constructor attaches and renames "getMsg"                             *)
(***************************************************************************)
\* UPnPObject::UPnPObject() leaves the target empty.
UPnPObject_default == S_empty

\* UPnPService() : UPnPObject("service")
UPnPService_default == setTargetText(S_service)

\* RootDevice() : UPnPDevice("root")
RootDevice_default == setTargetText(S_root)

ConstructedTarget ==
  [n \in AllNodes |->
     CASE n = "r1" -> RootDevice_default
       [] n = "r2" -> setTargetText(S_d)
       [] n = "d1" -> UPnPObject_default
       [] n = "s1" -> setTargetText(S_s)
       [] n = "s2" -> UPnPService_default
       [] n = "d2" -> setTargetText(S_customDevice)
       [] n = "cs" -> setTargetText(S_customService)]

\* Whether the caller passed a target to the constructor, or the constructor
\* called setTarget.
ConstructedWithTarget == [n \in AllNodes |-> n \in {"r2", "s1", "cs"}]

\* Every RootDevice constructor runs srand(getChipID()) and then
\* generateUUID(_uuid); UPnPDevice constructors leave _uuid empty.
ConstructedUUID ==
  [d \in AllDevices |-> IF d \in Roots THEN generateUUID(0) ELSE S_empty]

\* The objects once every constructor has run: the body of the CustomDevice
\* constructor is addService(customService()) and
\* customService()->setTarget("getMsg").
Constructed ==
  LET bare == [target |-> ConstructedTarget,
               parent |-> [n \in AllNodes |-> NULL],
               services |-> [d \in AllDevices |-> << >>],
               devices |-> [r \in Roots |-> << >>],
               uuid |-> ConstructedUUID,
               context |-> [r \in Roots |-> NULL],
               routes |-> [c \in Contexts |-> EmptyBag],
               randPos |-> 16,
               rng |-> [seeds |-> Cardinality(Roots),
                        drawn |-> [d \in AllDevices |->
                                     IF d \in Roots THEN 0 ELSE NotDrawn]]]
  IN  setTarget(addService(bare, "d2", "cs"), "cs", S_getMsg)

\* The order in which the static initializers of one build run: those of
\* UPnPService.cpp, of UPnPDevice.cpp, and of the example.
StaticInitOrder ==
  <<"UPnPService", "UPnPObject", "UPnPDevice", "RootDevice", "CustomDevice",
    "CustomService">>

\* ClassType() {_typeID=++_numTypes;}, run for each class in the given order.
StaticTypeIDs(order) ==
  [c \in Classes |-> CHOOSE i \in 1..Len(order) : order[i] = c]

NoCall == [op |-> "none", self |-> NULL, arg |-> NULL]

\* What a call that returns nothing leaves in ret.
NoResult == [ok |-> FALSE, node |-> NULL, text |-> S_empty, pos |-> 0]

Init ==
  /\ target = Constructed.target
  /\ parent = Constructed.parent
  /\ services = Constructed.services
  /\ devices = Constructed.devices
  /\ uuid = Constructed.uuid
  /\ context = Constructed.context
  /\ routes = Constructed.routes
  /\ randPos = Constructed.randPos
  /\ explicit = ConstructedWithTarget
  /\ last = NoCall
  /\ nOps = 0
  /\ nSetup = 0
  /\ numTypes = Len(StaticInitOrder)
  /\ typeID = StaticTypeIDs(StaticInitOrder)
  /\ textArg = S_empty
  /\ sizeArg = 0
  /\ ret = NoResult
  /\ rng = Constructed.rng

(***************************************************************************)
(* The calls of the public interface as steps.                             *)
(***************************************************************************)
Becomes(w) ==
  /\ target' = w.target
  /\ parent' = w.parent
  /\ services' = w.services
  /\ devices' = w.devices
  /\ uuid' = w.uuid
  /\ context' = w.context
  /\ routes' = w.routes
  /\ randPos' = w.randPos
  /\ rng' = w.rng

\* A call that returns nothing and constructs no ClassType.
VoidCall(t) ==
  /\ textArg' = t
  /\ sizeArg' = 0
  /\ ret' = NoResult
  /\ UNCHANGED <<numTypes, typeID>>

\* The texts setTarget is called with.
TargetTexts == {S_empty, S_slash_d}

CallSetTarget(n, text) ==
  /\ Becomes(setTarget(World, n, text))
  /\ explicit' = [explicit EXCEPT ![n] = TRUE]
  /\ last' = [op |-> "setTarget", self |-> n, arg |-> NULL]
  /\ VoidCall(text)

CallAddService(d, s) ==
  /\ addServiceReturns(World, d, s)
  /\ Becomes(addService(World, d, s))
  /\ last' = [op |-> "addService", self |-> d, arg |-> s]
  /\ UNCHANGED explicit
  /\ VoidCall(S_empty)

CallAddDevice(r, d) ==
  /\ addDeviceReturns(World, r, d)
  /\ Becomes(addDevice(World, r, d))
  /\ last' = [op |-> "addDevice", self |-> r, arg |-> d]
  /\ UNCHANGED explicit
  /\ VoidCall(S_empty)

CallAddServices(d, ss) ==
  /\ addServicesReturns(World, d, ss)
  /\ Becomes(addServices(World, d, ss))
  /\ last' = [op |-> "addServices", self |-> d, arg |-> NULL]
  /\ UNCHANGED explicit
  /\ VoidCall(S_empty)

CallAddDevices(r, ds) ==
  /\ addDevicesReturns(World, r, ds)
  /\ Becomes(addDevices(World, r, ds))
  /\ last' = [op |-> "addDevices", self |-> r, arg |-> NULL]
  /\ UNCHANGED explicit
  /\ VoidCall(S_empty)

CallSetup(r, c) ==
  /\ setupReturns(World, r, {})
  /\ Becomes(RootDevice_setup(World, r, c))
  /\ last' = [op |-> "setup", self |-> r, arg |-> c]
  /\ UNCHANGED explicit
  /\ VoidCall(S_empty)

\* The tree specification: every call on every object, MaxOps calls deep.
Counted == nOps < MaxOps /\ nOps' = nOps + 1

SetTarget ==
  \E n \in Nodes, text \in TargetTexts :
    Counted /\ CallSetTarget(n, text) /\ UNCHANGED nSetup

AddService ==
  \E d \in Devices, s \in Services :
    Counted /\ CallAddService(d, s) /\ UNCHANGED nSetup

AddDevice ==
  \E r \in Roots, d \in Devices :
    Counted /\ CallAddDevice(r, d) /\ UNCHANGED nSetup

Setup ==
  \E r \in Roots, c \in Contexts :
    Counted /\ CallSetup(r, c) /\ nSetup' = nSetup + 1

Next == SetTarget \/ AddService \/ AddDevice \/ Setup

Spec == Init /\ [][Next]_vars

\* The capacity specification: r1 is filled with d1 and d1 with s1 by
\* addDevices and addServices calls of FillBatch arguments, as often as one
\* likes; setup of r1 and the single attach calls are bounded.
FillDevices ==
  /\ CallAddDevices("r1", [i \in 1..FillBatch |-> "d1"])
  /\ UNCHANGED <<nOps, nSetup>>

FillServices ==
  /\ CallAddServices("d1", [i \in 1..FillBatch |-> "s1"])
  /\ UNCHANGED <<nOps, nSetup>>

CapSetup ==
  \E c \in Contexts :
    /\ nSetup < MaxSetup
    /\ nSetup' = nSetup + 1
    /\ CallSetup("r1", c)
    /\ UNCHANGED nOps

ExtraCounted == nOps < MaxExtra /\ nOps' = nOps + 1 /\ UNCHANGED nSetup

ExtraDevice ==
  \E d \in {"d1", "r2", NULL} : ExtraCounted /\ CallAddDevice("r1", d)

ExtraService ==
  \E d \in {"r1", "d1"}, s \in {"s1", "s2", NULL} :
    ExtraCounted /\ CallAddService(d, s)

NextCap ==
  FillDevices \/ FillServices \/ CapSetup \/ ExtraDevice \/ ExtraService

SpecCap == Init /\ [][NextCap]_vars

(***************************************************************************)
(* The text specification: calls of the functions on strings, which leave  *)
(* the objects as constructed.                                             *)
(***************************************************************************)
\* A behaviour of the text specification is one call.
TextCall(op, t, size, result) ==
  /\ last' = [op |-> op, self |-> NULL, arg |-> NULL]
  /\ textArg' = t
  /\ sizeArg' = size
  /\ ret' = result
  /\ UNCHANGED <<target, parent, services, devices, uuid, context, routes,
                 randPos, explicit, nOps, nSetup, numTypes, typeID, rng>>

\* Every text of at most n characters of the alphabet.
TextsUpTo(alphabet, n) == UNION {[1..k -> alphabet] : k \in 0..n}

PathAlphabet == {"/", "?", "=", "&", "+", "a", "%"}

S_examplePath == <<"/", "a", "?", "b", "=", "c", "&", "d", "+", "e">>

PathTexts == TextsUpTo(PathAlphabet, MaxPathLen) \cup {S_examplePath}

\* encodePath on every path, with every buffer size from 0 to more than the
\* longest result needs.
EncodePath ==
  /\ last = NoCall
  /\ \E path \in PathTexts :
       \E size \in 0..(3 * Len(path) + 2) :
         LET r == encodePath(size, path)
         IN  TextCall("encodePath", path, size,
                      [NoResult EXCEPT !.ok = ~r.overrun, !.text = r.text])

\* Two well-formed UUID texts, one in lowercase and one in uppercase.
UUIDShaped(ch) ==
  [i \in 1..(UUID_SIZE - 1) |-> IF i \in {9, 14, 19, 24} THEN "-" ELSE ch]

\* s with its i-th character replaced by ch.
WithChar(s, i, ch) == [s EXCEPT ![i] = ch]

\* The texts isValidUUID is called with: the well-formed texts, each with
\* one character replaced, cut short, or one character longer.
UUIDTexts ==
  LET bases == {UUIDShaped("a"), UUIDShaped("F"), UUIDShaped("0")}
  IN  bases
        \cup {WithChar(b, i, ch) :
               b \in bases, i \in 1..(UUID_SIZE - 1),
               ch \in {"-", "g", "9", "G", " "}}
        \cup {Take(b, k) : b \in bases, k \in 0..(UUID_SIZE - 2)}
        \cup {b \o <<"0">> : b \in bases}

IsValidUUID ==
  /\ last = NoCall
  /\ \E s \in UUIDTexts :
       TextCall("isValidUUID", s, 0,
                [NoResult EXCEPT !.ok = isValidUUID(s)])

\* The values rand() returns during one generateUUID call: 16 values that
\* start at any residue modulo 256 and advance by a fixed step, so that every
\* byte value occurs at every position of the array.
RandStarts == 0..255
RandSteps == {0, 1, 17}

GenerateUUID ==
  /\ last = NoCall
  /\ \E r0 \in RandStarts, step \in RandSteps :
       LET bytes == [i \in 1..16 |-> RandomByte(r0 + step * i)]
       IN  TextCall("generateUUID", S_empty, UUID_SIZE,
                    [NoResult EXCEPT !.text = FormatUUID(bytes)])

NextText == EncodePath \/ IsValidUUID \/ GenerateUUID

SpecText == Init /\ [][NextText]_vars

(***************************************************************************)
(* The type specification: the static initializers of the classes' tags    *)
(* run in any order, then as() is called on the constructed objects.       *)
(***************************************************************************)
InitTypes ==
  /\ target = Constructed.target
  /\ parent = Constructed.parent
  /\ services = Constructed.services
  /\ devices = Constructed.devices
  /\ uuid = Constructed.uuid
  /\ context = Constructed.context
  /\ routes = Constructed.routes
  /\ randPos = Constructed.randPos
  /\ explicit = ConstructedWithTarget
  /\ last = NoCall
  /\ nOps = 0
  /\ nSetup = 0
  /\ numTypes = 0
  /\ typeID = [c \in Classes |-> 0]
  /\ textArg = S_empty
  /\ sizeArg = 0
  /\ ret = NoResult
  /\ rng = Constructed.rng

ObjectsUnchanged ==
  UNCHANGED <<target, parent, services, devices, uuid, context, routes,
              randPos, explicit, nOps, nSetup, rng>>

\* const ClassType C::_classType = ClassType(), once for each class.
ConstructClassType ==
  \E c \in Classes :
    /\ typeID[c] = 0
    /\ numTypes' = ClassType_ctor(numTypes).numTypes
    /\ typeID' = [typeID EXCEPT ![c] = ClassType_ctor(numTypes).typeID]
    /\ last' = [op |-> "ClassType", self |-> NULL, arg |-> c]
    /\ textArg' = S_empty
    /\ sizeArg' = 0
    /\ ret' = NoResult
    /\ ObjectsUnchanged

CallAs(n, t) ==
  /\ last' = [op |-> "as", self |-> n, arg |-> t]
  /\ ret' = [NoResult EXCEPT !.node = as(typeID, n, t)]
  /\ textArg' = S_empty
  /\ sizeArg' = 0
  /\ UNCHANGED <<numTypes, typeID>>
  /\ ObjectsUnchanged

\* as() is called once every static initializer has run; a behaviour of
\* the type specification makes one such call.
As ==
  /\ \A c \in Classes : typeID[c] # 0
  /\ last.op = "ClassType"
  /\ \E n \in AllNodes, t \in Classes \cup {NULL} : CallAs(n, t)

NextTypes == ConstructClassType \/ As

SpecTypes == InitTypes /\ [][NextTypes]_vars

(***************************************************************************)
(* UPnPDevice::setUUID, UPnPDevice::isDevice and RootDevice::getDevice.    *)
(***************************************************************************)
\* A faulty setUUID that stores the text whatever its form.
setUUID_Unchecked(w, d, s) ==
  [w EXCEPT !.uuid[d] = strlcpy(s, UUID_SIZE), !.rng.drawn[d] = NotDrawn]

\* if( isValidUUID(uuid) ) {strlcpy(_uuid,uuid.c_str(),sizeof(_uuid)); return true;}
\* else return false;  A UUID set this way is no longer a generated one.
setUUID(w, d, s) ==
  IF isValidUUID(s)
  THEN [w EXCEPT !.uuid[d] = strlcpy(s, UUID_SIZE), !.rng.drawn[d] = NotDrawn]
  ELSE w

\* The value setUUID returns.
setUUIDResult(s) == isValidUUID(s)

\* strcmp(u,uuid()) == 0
isDevice(w, d, u) == u = w.uuid[d]

\* for( int i=0; (i<numDevices()) && (result == NULL); i++ )
\*    if( device(i)->as(t) != NULL ) result = device(i);
RECURSIVE getDeviceByTypeLoop(_, _, _, _, _)
getDeviceByTypeLoop(w, ids, r, t, i) ==
  IF i > Len(w.devices[r]) THEN NULL
  ELSE IF as(ids, w.devices[r][i], t) # NULL THEN w.devices[r][i]
  ELSE getDeviceByTypeLoop(w, ids, r, t, i + 1)

\* A faulty lookup by type that never tests the root itself.
getDeviceByTypeSelf_Skipped(ids, r, t) == NULL

\* this->as(t)
getDeviceByTypeSelf(ids, r, t) == as(ids, r, t)

\* RootDevice::getDevice(const ClassType* t)
getDeviceByType(w, ids, r, t) ==
  IF getDeviceByTypeSelf(ids, r, t) # NULL THEN r
  ELSE getDeviceByTypeLoop(w, ids, r, t, 1)

\* for( int i=0; (i<numDevices()) && (result == NULL); i++ )
\*    if( device(i)->isDevice(u) ) result = device(i);
RECURSIVE getDeviceByUUIDLoop(_, _, _, _)
getDeviceByUUIDLoop(w, r, u, i) ==
  IF i > Len(w.devices[r]) THEN NULL
  ELSE IF isDevice(w, w.devices[r][i], u) THEN w.devices[r][i]
  ELSE getDeviceByUUIDLoop(w, r, u, i + 1)

\* RootDevice::getDevice(const char* u)
getDeviceByUUID(w, r, u) ==
  IF isDevice(w, r, u) THEN r ELSE getDeviceByUUIDLoop(w, r, u, 1)

(***************************************************************************)
(* Device trees whose UUIDs are set by the application and looked up.      *)
(***************************************************************************)
\* The names of the lookup calls.
LookupOps == {"getDeviceByType", "getDeviceByUUID"}

\* The texts setUUID is called with: two well-formed ones and one cut short.
UUIDCandidates ==
  {UUIDShaped("a"), UUIDShaped("F"), Take(UUIDShaped("a"), UUID_SIZE - 2)}

\* The texts getDevice is called with: those of setUUID, the first two
\* generated UUIDs, and the empty text.
LookupUUIDs ==
  UUIDCandidates \cup {generateUUID(0), generateUUID(16), S_empty}

CountedUUID == nOps < MaxUUIDOps /\ nOps' = nOps + 1

\* A call is made on a tree as the application left it, not after a lookup.
Building == last.op \notin LookupOps

CallSetUUID(d, s) ==
  /\ Becomes(setUUID(World, d, s))
  /\ last' = [op |-> "setUUID", self |-> d, arg |-> NULL]
  /\ textArg' = s
  /\ sizeArg' = 0
  /\ ret' = [NoResult EXCEPT !.ok = setUUIDResult(s)]
  /\ UNCHANGED <<explicit, numTypes, typeID>>

CallGetDeviceByType(r, t) ==
  /\ Becomes(World)
  /\ last' = [op |-> "getDeviceByType", self |-> r, arg |-> t]
  /\ textArg' = S_empty
  /\ sizeArg' = 0
  /\ ret' = [NoResult EXCEPT !.node = getDeviceByType(World, typeID, r, t)]
  /\ UNCHANGED <<explicit, numTypes, typeID>>

CallGetDeviceByUUID(r, u) ==
  /\ Becomes(World)
  /\ last' = [op |-> "getDeviceByUUID", self |-> r, arg |-> NULL]
  /\ textArg' = u
  /\ sizeArg' = 0
  /\ ret' = [NoResult EXCEPT !.node = getDeviceByUUID(World, r, u)]
  /\ UNCHANGED <<explicit, numTypes, typeID>>

SetUUID ==
  /\ Building /\ CountedUUID
  /\ \E d \in AllDevices \ {"r1"}, s \in UUIDCandidates :
       CallSetUUID(d, s) /\ UNCHANGED nSetup

AddDeviceUUID ==
  \E r \in Roots, d \in AllDevices \ {"r1"} :
    /\ r # d
    /\ Building /\ CountedUUID
    /\ CallAddDevice(r, d) /\ UNCHANGED nSetup

GetDeviceByType ==
  /\ Building
  /\ \E r \in Roots, t \in Classes \cup {NULL} :
       CallGetDeviceByType(r, t) /\ UNCHANGED <<nOps, nSetup>>

GetDeviceByUUID ==
  /\ Building
  /\ \E r \in Roots, u \in LookupUUIDs :
       CallGetDeviceByUUID(r, u) /\ UNCHANGED <<nOps, nSetup>>

NextUUID == SetUUID \/ AddDeviceUUID \/ GetDeviceByType \/ GetDeviceByUUID

SpecUUID == Init /\ [][NextUUID]_vars

(***************************************************************************)
(* location: the absolute URL of a node.                                   *)
(***************************************************************************)
S_http == <<"h", "t", "t", "p", ":", "/", "/">>
S_colon == <<":">>

\* getContext()->getLocalPort(): the port the web server of context c
\* listens on.
getLocalPort(c) == 80

\* A faulty serverPort that ignores the context.
serverPort_Unbound(w, r) == 0

\* (getContext()!=NULL)?(getContext()->getLocalPort()):(0)
serverPort(w, r) ==
  IF w.context[r] # NULL THEN getLocalPort(w.context[r]) ELSE 0

\* snprintf(buffer,buffSize,"http://%s:%d/%s",ifc.toString().c_str(),
\*          serverPort(),getTarget())
RootDevice_location(w, r, buffSize, ifc) ==
  snprintf(buffSize,
           S_http \o ifc \o S_colon \o FormatInt(serverPort(w, r))
             \o S_slash \o w.target[r])

\* UPnPDevice::location and UPnPService::location, which have the same
\* body, and the virtual call p->location(buffer,buffSize,ifc).
RECURSIVE location(_, _, _, _)
location(w, n, buffSize, ifc) ==
  IF n \in Roots THEN RootDevice_location(w, n, buffSize, ifc)
  ELSE IF getParent(w, n) # NULL
  THEN LET buffer == location(w, getParent(w, n), buffSize, ifc)
           pos == Len(buffer)
           size == buffSize - pos
       IN  buffer \o snprintf(size, S_slash \o w.target[n])
  ELSE snprintf(buffSize, S_slash \o w.target[n])

(***************************************************************************)
(* formatRootContent: what a device shows on the page of its root.         *)
(***************************************************************************)
S_ThisDevice == <<"T", "h", "i", "s", " ", "D", "e", "v", "i", "c", "e">>
S_Device == <<"D", "e", "v", "i", "c", "e">>
S_RootDevice == <<"R", "o", "o", "t", " ", "D", "e", "v", "i", "c", "e">>
S_CustomDevice ==
  <<"C", "u", "s", "t", "o", "m", " ", "D", "e", "v", "i", "c", "e">>

\* getDisplayName(): the name the constructor of the node's class sets.
getDisplayName(n) ==
  CASE ClassOf(n) = "RootDevice" -> S_RootDevice
    [] ClassOf(n) = "CustomDevice" -> S_CustomDevice
    [] OTHER -> S_Device

\* The text of root_html_template, which has no conversion specification.
root_html_template ==
  <<"<", "b", "r", ">", "<", "b", "r", ">", "<", "p", " ", "a", "l", "i",
    "g", "n", "=", "\"", "c", "e", "n", "t", "e", "r", "\"", ">", "C", "u",
    "s", "t", "o", "m", " ", "D", "e", "v", "i", "c", "e", " ", "R", "o",
    "o", "t", " ", "D", "i", "s", "p", "l", "a", "y", "<", "/", "p", ">",
    "<", "b", "r", ">">>

\* The app_button template filled with a path and a name: a link to the
\* path that shows the name.  The fixed text of the template is kept as
\* three pieces of one character each.
app_button(path, name) ==
  <<"<a href='">> \o path \o <<"'>">> \o name \o <<"</a>">>

\* formatBuffer_P(buffer,size,pos,template,...): writes the filled template
\* at pos, never beyond size-1 characters, and returns the new position, size
\* when the text did not fit.
formatBuffer_P(buf, size, filled) ==
  IF buf.pos >= size THEN buf
  ELSE [text |-> Take(buf.text, buf.pos) \o Take(filled, size - buf.pos - 1),
        pos |-> Min(buf.pos + Len(filled), size)]

\* UPnPDevice::formatRootContent
UPnPDevice_formatRootContent(w, d, buf, size) ==
  formatBuffer_P(buf, size,
                 app_button(getPath(w, d, PATH_BUFFER_SIZE),
                            getDisplayName(d)))

\* CustomDevice::formatRootContent
CustomDevice_formatRootContent(w, d, buf, size) ==
  formatBuffer_P(buf, size, root_html_template)

\* A faulty RootDevice::formatRootContent without a control of its own.
ThisDeviceControl_Omitted(w, r, buf, size) == buf

\* getPath(buff,100);
\* pos = formatBuffer_P(buffer,size,pos,app_button,buff,"This Device");
ThisDeviceControl(w, r, buf, size) ==
  formatBuffer_P(buf, size,
                 app_button(getPath(w, r, PATH_BUFFER_SIZE), S_ThisDevice))

\* The virtual call d->formatRootContent(buffer,size,pos), and
\* RootDevice::formatRootContent with its loop
\* for( int i=0; (i<numDevices()) && (pos<size); i++ ).
RECURSIVE formatRootContent(_, _, _, _)
RECURSIVE RootDevice_formatRootContentLoop(_, _, _, _, _)
RootDevice_formatRootContentLoop(w, r, buf, size, i) ==
  IF i > Len(w.devices[r]) \/ ~(buf.pos < size) THEN buf
  ELSE RootDevice_formatRootContentLoop(
         w, r, formatRootContent(w, w.devices[r][i], buf, size), size, i + 1)

formatRootContent(w, n, buf, size) ==
  CASE ClassOf(n) = "RootDevice" ->
         ThisDeviceControl(
           w, n, RootDevice_formatRootContentLoop(w, n, buf, size, 1), size)
    [] ClassOf(n) = "CustomDevice" ->
         CustomDevice_formatRootContent(w, n, buf, size)
    [] OTHER -> UPnPDevice_formatRootContent(w, n, buf, size)

(***************************************************************************)
(* Device trees that are set up and then asked for their location and      *)
(* their root content.                                                     *)
(***************************************************************************)
\* The names of the calls that leave the tree as it is.
ViewOps == {"location", "formatRootContent"}

\* The address location is called with, as IPAddress::toString prints it.
Addresses == {<<"1", "0", ".", "0", ".", "0", ".", "7">>}

\* The buffer sizes location is called with: the one printInfo uses and one
\* too small for any URL.
LocationSizes == {SmallLocationSize, PrintInfoSize}

\* The buffer sizes formatRootContent is called with: the one display uses
\* and one that two controls fill.
DisplaySizes == {SmallDisplaySize, DISPLAY_SIZE}

\* The header that is in the buffer when formatRootContent is called.
Headers == {S_empty, <<"<h1>", "</h1>">>}

CountedView == nOps < MaxViewOps /\ nOps' = nOps + 1

\* A call is made on a tree as the application left it.
BuildingView == last.op \notin ViewOps

CallLocation(n, buffSize, ifc) ==
  /\ Becomes(World)
  /\ last' = [op |-> "location", self |-> n, arg |-> NULL]
  /\ textArg' = ifc
  /\ sizeArg' = buffSize
  /\ ret' = [NoResult EXCEPT !.text = location(World, n, buffSize, ifc)]
  /\ UNCHANGED <<explicit, numTypes, typeID>>

CallFormatRootContent(r, header, size) ==
  /\ Becomes(World)
  /\ last' = [op |-> "formatRootContent", self |-> r, arg |-> NULL]
  /\ textArg' = header
  /\ sizeArg' = size
  /\ LET buf == formatRootContent(World, r,
                                  [text |-> header, pos |-> Len(header)],
                                  size)
     IN  ret' = [NoResult EXCEPT !.text = buf.text, !.pos = buf.pos]
  /\ UNCHANGED <<explicit, numTypes, typeID>>

AddDeviceView ==
  /\ BuildingView /\ CountedView
  /\ \E r \in Roots, d \in AllDevices \ {"r1"} :
       r # d /\ CallAddDevice(r, d) /\ UNCHANGED nSetup

AddServiceView ==
  /\ BuildingView /\ CountedView
  /\ \E d \in Devices, s \in {"s1"} :
       CallAddService(d, s) /\ UNCHANGED nSetup

SetupView ==
  /\ BuildingView /\ CountedView
  /\ \E r \in Roots, c \in Contexts :
       CallSetup(r, c) /\ nSetup' = nSetup + 1

Location ==
  /\ BuildingView
  /\ \E n \in AllNodes, buffSize \in LocationSizes, ifc \in Addresses :
       CallLocation(n, buffSize, ifc) /\ UNCHANGED <<nOps, nSetup>>

FormatRootContent ==
  /\ BuildingView
  /\ \E r \in Roots, header \in Headers, size \in DisplaySizes :
       CallFormatRootContent(r, header, size) /\ UNCHANGED <<nOps, nSetup>>

NextView ==
  AddDeviceView \/ AddServiceView \/ SetupView \/ Location
    \/ FormatRootContent

SpecView == Init /\ [][NextView]_vars

(***************************************************************************)
(* The accessors service(i) and device(i).  The index is 0-based, the      *)
(* sequences of the model are 1-based.                                     *)
(***************************************************************************)
\* What a read of _devices[i] with i < 0 can give: the bytes in front of the
\* array are not an entry, so the value is NULL, the address of some device,
\* or an address of no object at all.
WILD == "wild"
OutsideReads == AllDevices \cup {NULL, WILD}

\* ((i<_numServices)&&(i>=0))?(_services[i]):(NULL)
service(w, d, i) ==
  IF i < Len(w.services[d]) /\ i >= 0 THEN w.services[d][i + 1] ELSE NULL

\* (i<_numDevices)?(_devices[i]):(NULL): the values the call can return.
device(w, r, i) ==
  IF i < Len(w.devices[r])
  THEN IF i >= 0 THEN {w.devices[r][i + 1]} ELSE OutsideReads
  ELSE {NULL}

(***************************************************************************)
(* Small device trees whose entries are read by index.                     *)
(***************************************************************************)
IndexOps == {"service", "device"}

\* The indexes the accessors are called with.
Indexes == (0 - 1)..MAX_DEVICES

CountedIndex == nOps < MaxIndexOps /\ nOps' = nOps + 1

BuildingIndex == last.op \notin IndexOps

CallIndex(op, n, i, result) ==
  /\ Becomes(World)
  /\ last' = [op |-> op, self |-> n, arg |-> NULL]
  /\ textArg' = S_empty
  /\ sizeArg' = i
  /\ ret' = [NoResult EXCEPT !.node = result]
  /\ UNCHANGED <<explicit, numTypes, typeID, nOps, nSetup>>

AddDeviceIndex ==
  /\ BuildingIndex /\ CountedIndex
  /\ \E r \in Roots, d \in AllDevices \ {"r1"} :
       r # d /\ CallAddDevice(r, d) /\ UNCHANGED nSetup

AddServiceIndex ==
  /\ BuildingIndex /\ CountedIndex
  /\ \E d \in Devices, s \in Services :
       CallAddService(d, s) /\ UNCHANGED nSetup

ServiceAt ==
  /\ BuildingIndex
  /\ \E d \in AllDevices, i \in Indexes :
       CallIndex("service", d, i, service(World, d, i))

DeviceAt ==
  /\ BuildingIndex
  /\ \E r \in Roots, i \in Indexes :
       \E result \in device(World, r, i) : CallIndex("device", r, i, result)

NextIndex == AddDeviceIndex \/ AddServiceIndex \/ ServiceAt \/ DeviceAt

SpecIndex == Init /\ [][NextIndex]_vars

(***************************************************************************)
(* The seed specification: the RootDevices are constructed one after the   *)
(* other while devices are added to those that exist.                      *)
(***************************************************************************)
\* The objects before any RootDevice constructor has run.
BeforeRoots ==
  [Constructed EXCEPT
     !.uuid = [d \in AllDevices |-> S_empty],
     !.randPos = 0,
     !.rng = [seeds |-> 0, drawn |-> [d \in AllDevices |-> NotDrawn]]]

InitSeed ==
  /\ target = BeforeRoots.target
  /\ parent = BeforeRoots.parent
  /\ services = BeforeRoots.services
  /\ devices = BeforeRoots.devices
  /\ uuid = BeforeRoots.uuid
  /\ context = BeforeRoots.context
  /\ routes = BeforeRoots.routes
  /\ randPos = BeforeRoots.randPos
  /\ rng = BeforeRoots.rng
  /\ explicit = ConstructedWithTarget
  /\ last = NoCall
  /\ nOps = 0
  /\ nSetup = 0
  /\ numTypes = Len(StaticInitOrder)
  /\ typeID = StaticTypeIDs(StaticInitOrder)
  /\ textArg = S_empty
  /\ sizeArg = 0
  /\ ret = NoResult

\* The constructor of root r has run.
Exists(d) == d \in Roots => uuid[d] # S_empty

CountedSeed == nOps < MaxSeedOps /\ nOps' = nOps + 1

ConstructRoot ==
  /\ CountedSeed
  /\ \E r \in Roots :
       /\ ~Exists(r)
       /\ Becomes(RootDevice_ctor(World, r))
       /\ last' = [op |-> "RootDevice", self |-> r, arg |-> NULL]
       /\ VoidCall(S_empty)
       /\ UNCHANGED <<explicit, nSetup>>

AddDeviceSeed ==
  /\ CountedSeed
  /\ \E r \in Roots, d \in AllDevices \ {"r1"} :
       /\ r # d /\ Exists(r) /\ Exists(d)
       /\ CallAddDevice(r, d) /\ UNCHANGED nSetup

NextSeed == ConstructRoot \/ AddDeviceSeed

SpecSeed == InitSeed /\ [][NextSeed]_vars

(***************************************************************************)
(* Vocabulary of the properties.                                           *)
(***************************************************************************)
Range(seq) == {seq[i] : i \in 1..Len(seq)}

\* getPath as the setup methods call it.
PathOf(w, n) == getPath(w, n, PATH_BUFFER_SIZE)

\* The paths some handler is registered on with context c.
RoutesOf(w, c) == {h.path : h \in BagToSet(w.routes[c])}

Registered(w, c, path) == path \in RoutesOf(w, c)

\* The paths of the handlers a step has added to context c.
NewRoutes(c) == {h.path : h \in BagToSet(routes'[c] (-) routes[c])}

\* A step that is the return of a call op(self, arg).
Returned(op, self, arg) ==
  last'.op = op /\ last'.self = self /\ last'.arg = arg

ProgramUnchanged ==
  UNCHANGED <<target, parent, services, devices, uuid, context, routes, randPos>>

(***************************************************************************)
(* C1.  For a RootDevice on which setup(ctx) has been called, every call   *)
(* addDevice(d) leaves getPath(d) a registered route of ctx.               *)
(***************************************************************************)
\* C1 as stated: after any addDevice(d) call on a root that holds a context,
\* getPath(d) is registered with that context.
C1_EveryAddDeviceRegisters ==
  (last.op = "addDevice" /\ last.arg # NULL /\ context[last.self] # NULL)
    => Registered(World, context[last.self], PathOf(World, last.arg))

\* C1 amended: an addDevice(d) call on a root that holds a context and fewer
\* than MAX_DEVICES devices leaves getPath(d) registered with that context.
C1_AddDeviceBelowCapacityRegisters ==
  [][\A r \in Roots, d \in Devices :
       (Returned("addDevice", r, d) /\ context[r] # NULL
        /\ Len(devices[r]) < MAX_DEVICES)
         => Registered(World', context[r], PathOf(World', d))]_vars

\* An addDevice call has attached r2 to the wired r1 and r2's path is
\* registered.
C1_Witness ==
  /\ last = [op |-> "addDevice", self |-> "r1", arg |-> "r2"]
  /\ context["r1"] # NULL
  /\ "r2" \in Range(devices["r1"])
  /\ Registered(World, context["r1"], PathOf(World, "r2"))

(***************************************************************************)
(* C2.  Late binding of services, and of a device together with the        *)
(* services it holds.                                                      *)
(***************************************************************************)
\* C2 as stated: after addService(s) on a device whose top-most ancestor is a
\* root with a context, getPath(s) is registered with it; after addDevice(d)
\* on a root with a context, getPath(d) and the path of every service d holds
\* are registered with it.
C2_EveryAttachRegisters ==
  /\ (/\ last.op = "addService"
      /\ last.arg # NULL
      /\ rootDevice(World, last.self) # NULL
      /\ context[rootDevice(World, last.self)] # NULL)
       => Registered(World, context[rootDevice(World, last.self)],
                     PathOf(World, last.arg))
  /\ (last.op = "addDevice" /\ last.arg # NULL /\ context[last.self] # NULL)
       => \A n \in {last.arg} \cup Range(services[last.arg]) :
            Registered(World, context[last.self], PathOf(World, n))

\* C2 amended: the same, for calls made while the collection holds fewer than
\* MAX_SERVICES (MAX_DEVICES) entries.
C2_AttachBelowCapacityRegisters ==
  [][/\ \A d \in Devices, s \in Services :
          (/\ Returned("addService", d, s)
           /\ Len(services[d]) < MAX_SERVICES
           /\ rootDevice(World, d) # NULL
           /\ context[rootDevice(World, d)] # NULL)
            => Registered(World', context[rootDevice(World, d)],
                          PathOf(World', s))
     /\ \A r \in Roots, d \in Devices :
          (/\ Returned("addDevice", r, d)
           /\ Len(devices[r]) < MAX_DEVICES
           /\ context[r] # NULL)
            => \A n \in {d} \cup Range(services[d]) :
                 Registered(World', context[r], PathOf(World', n))]_vars

\* An addDevice call has attached d1, which holds s1, to the wired r1, for
\* the first time, and both paths are registered.
C2_Witness ==
  /\ last = [op |-> "addDevice", self |-> "r1", arg |-> "d1"]
  /\ context["r1"] # NULL
  /\ devices["r1"] = <<"d1">>
  /\ "s1" \in Range(services["d1"])
  /\ Registered(World, context["r1"], PathOf(World, "d1"))
  /\ Registered(World, context["r1"], PathOf(World, "s1"))

(***************************************************************************)
(* C3.  No attach call registers a route while the root at the top of the  *)
(* tree has no context.                                                    *)
(***************************************************************************)
\* The top-most ancestor of n is not a RootDevice that holds a context.
TopUnwired(w, n) ==
  rootDevice(w, n) = NULL \/ w.context[rootDevice(w, n)] = NULL

C4_ListedRoutes(w, r) ==
  {PathOf(w, r)}
    \cup {PathOf(w, s) : s \in Range(w.services[r])}
    \cup {S_styles, S_slash}
    \cup {PathOf(w, d) : d \in Range(w.devices[r])}
    \cup UNION {{PathOf(w, s) : s \in Range(w.services[d])} :
                  d \in Range(w.devices[r])}

\* The tree C4 describes: the devices r holds hold services, not devices.
C4_DevicesHoldServicesOnly(w, r) ==
  \A d \in Range(w.devices[r]) : d \in Roots => Len(w.devices[d]) = 0

\* C4: a setup(c) call on a root r whose devices hold only services adds
\* handlers to c on exactly the listed paths, removes none, and records c as
\* r's context.
C4_SetupRegistersTree ==
  [][\A r \in Roots, c \in Contexts :
       (Returned("setup", r, c) /\ C4_DevicesHoldServicesOnly(World, r))
         => /\ NewRoutes(c) = C4_ListedRoutes(World, r)
            /\ \A h \in BagToSet(routes[c]) :
                 CopiesIn(h, routes'[c]) >= CopiesIn(h, routes[c])
            /\ context'[r] = c]_vars

\* setup has run on r1 while it held a service and the device d1, which
\* held a service.
C4_Witness ==
  /\ last = [op |-> "setup", self |-> "r1", arg |-> "c1"]
  /\ Len(services["r1"]) > 0
  /\ "d1" \in Range(devices["r1"])
  /\ Len(services["d1"]) > 0
  /\ context["r1"] = "c1"
  /\ RoutesOf(World, "c1") = C4_ListedRoutes(World, "r1")

(***************************************************************************)
(* C5.  The collections never exceed their capacity, and an attach call on *)
(* a full collection changes nothing.                                      *)
(***************************************************************************)
WithinCapacity ==
  /\ \A d \in Devices : Len(services[d]) <= MAX_SERVICES
  /\ \A r \in Roots : Len(devices[r]) <= MAX_DEVICES

\* C5: numServices() <= 8 and numDevices() <= 8 always; an addService
\* (addDevice) call on a device (root) that holds 8 services (devices) leaves
\* every collection, parent, target, UUID, context and route as it was.
C5_CapacityNoOp ==
  [][/\ WithinCapacity
     /\ WithinCapacity'
     /\ \A d \in Devices :
          (Returned("addService", d, last'.arg)
           /\ Len(services[d]) = MAX_SERVICES)
            => ProgramUnchanged
     /\ \A r \in Roots :
          (Returned("addDevice", r, last'.arg)
           /\ Len(devices[r]) = MAX_DEVICES)
            => ProgramUnchanged]_vars

\* addDevice(r2) has returned on the wired r1 that holds 8 devices: r2 has no
\* parent and its path is not registered.
C5_Witness ==
  /\ last = [op |-> "addDevice", self |-> "r1", arg |-> "r2"]
  /\ Len(devices["r1"]) = MAX_DEVICES
  /\ "r2" \notin Range(devices["r1"])
  /\ context["r1"] # NULL
  /\ parent["r2"] = NULL
  /\ ~Registered(World, context["r1"], PathOf(World, "r2"))

(***************************************************************************)
(* C6.  Default targets.                                                   *)
(***************************************************************************)
\* The nodes held in some collection.
Attached(n) ==
  \/ \E d \in Devices : n \in Range(services[d])
  \/ \E r \in Roots : n \in Range(devices[r])

\* C6 as stated: a service (device) the caller gave no target, held at some
\* 0-based index i of a collection, has the target "service<i>"
\* ("device<i>"), and no other node of that collection has the same target.
C6_DefaultTargetIsIndexed ==
  /\ \A d \in Devices, s \in Services :
       (s \in Range(services[d]) /\ ~explicit[s])
         => /\ \E i \in 1..Len(services[d]) :
                 services[d][i] = s /\ target[s] = S_service \o FormatInt(i - 1)
            /\ \A o \in Range(services[d]) \ {s} : target[o] # target[s]
  /\ \A r \in Roots, d \in PlainDevices :
       (d \in Range(devices[r]) /\ ~explicit[d])
         => /\ \E i \in 1..Len(devices[r]) :
                 devices[r][i] = d /\ target[d] = S_device \o FormatInt(i - 1)
            /\ \A o \in Range(devices[r]) \ {d} : target[o] # target[d]

(***************************************************************************)
(* C7.  The target of an attached node is not empty.                       *)
(***************************************************************************)
\* C7 as stated: every node held in a collection has a non-empty target.
C7_AttachedTargetNonEmpty ==
  \A n \in Nodes : Attached(n) => Len(target[n]) > 0

(***************************************************************************)
(* C8.  A node's parent is assigned once.                                  *)
(***************************************************************************)
\* Every entry of a collection has the collection's owner as its parent.
C8_EntriesHaveOwnerAsParent ==
  /\ \A d \in Devices : \A s \in Range(services[d]) : parent[s] = d
  /\ \A r \in Roots : \A d \in Range(devices[r]) : parent[d] = r

\* C8 as stated: a parent, once set, never changes, and every entry of a
\* collection has the collection's owner as its parent.
C8_ParentAssignedOnce ==
  [][/\ \A n \in Nodes : parent[n] # NULL => parent'[n] = parent[n]
     /\ C8_EntriesHaveOwnerAsParent']_vars

(***************************************************************************)
(* C9.  The paths of a three-level tree.                                   *)
(***************************************************************************)
S_path_d_s == <<"/", "d", "/", "s">>
S_path_d == <<"/", "d">>
S_path_root_d_s == <<"/", "r", "o", "o", "t", "/", "d", "/", "s">>
S_path_root_d == <<"/", "r", "o", "o", "t", "/", "d">>

\* Root r (target "root", no parent) holds device d (target "d"), which
\* holds service s (target "s").
C9_Tree(r, d, s) ==
  /\ parent[r] = NULL /\ target[r] = S_root
  /\ parent[d] = r /\ target[d] = S_d
  /\ parent[s] = d /\ target[s] = S_s

\* C9 as stated: in that tree getPath(s) is "/d/s" and getPath(d) is "/d".
C9_PathsOmitRoot ==
  \A r \in Roots, d \in Devices, s \in Services :
    C9_Tree(r, d, s)
      => /\ PathOf(World, s) = S_path_d_s
         /\ PathOf(World, d) = S_path_d

\* C9 amended: in that tree getPath(s) is "/root/d/s" and getPath(d) is
\* "/root/d".
C9_PathsStartAtRoot ==
  \A r \in Roots, d \in Devices, s \in Services :
    C9_Tree(r, d, s)
      => /\ PathOf(World, s) = S_path_root_d_s
         /\ PathOf(World, d) = S_path_root_d

\* The tree has been built from r1, the plain device d1 and s1.
C9_Witness ==
  /\ C9_Tree("r1", "d1", "s1")
  /\ "d1" \in Range(devices["r1"])
  /\ "s1" \in Range(services["d1"])

(***************************************************************************)
(* C10.  getPath joins the targets of the whole parent chain.              *)
(***************************************************************************)
\* The number of nodes on n's parent chain, n included, counted up to fuel;
\* 0 when the chain is longer (or a cycle).
RECURSIVE ChainLength(_, _)
ChainLength(n, fuel) ==
  IF parent[n] = NULL THEN 1
  ELSE IF fuel = 0 THEN 0
  ELSE LET up == ChainLength(parent[n], fuel - 1)
       IN  IF up = 0 THEN 0 ELSE up + 1

ChainEnds(n) == ChainLength(n, Cardinality(Nodes)) > 0

\* "/" and the targets from the top-most ancestor down to n, joined by "/".
RECURSIVE ChainPath(_)
ChainPath(n) ==
  IF parent[n] = NULL THEN S_slash \o target[n]
  ELSE ChainPath(parent[n]) \o S_slash \o target[n]

\* C10 as stated: getPath(n) joins the targets of n's whole parent chain.
C10_PathIsWholeChain ==
  \A n \in Nodes : ChainEnds(n) => PathOf(World, n) = ChainPath(n)

\* C10 amended: getPath(n) joins the targets of n's whole parent chain when
\* the chain has at most three nodes.
C10_PathIsChainUpToThree ==
  \A n \in Nodes :
    (ChainEnds(n) /\ ChainLength(n, Cardinality(Nodes)) <= 3)
      => PathOf(World, n) = ChainPath(n)

\* r1 holds the root r2 as a device, and r2 holds a service directly: a
\* chain of three nodes.
C10_Witness ==
  /\ parent["r2"] = "r1"
  /\ parent["r1"] = NULL
  /\ \E s \in Services :
       /\ parent[s] = "r2"
       /\ s \in Range(services["r2"])
       /\ PathOf(World, s) = S_slash \o target["r1"] \o S_slash
                               \o target["r2"] \o S_slash \o target[s]

(***************************************************************************)
(* C11.  encodePath into a buffer that holds the whole result.             *)
(***************************************************************************)
\* The replacement C11 gives for one character.
C11_Replacement(ch) ==
  IF ch = "/" THEN <<"%", "2", "F">>
  ELSE IF ch = "?" THEN <<"%", "3", "F">>
  ELSE IF ch = "=" THEN <<"%", "3", "D">>
  ELSE IF ch = "&" THEN <<"%", "2", "6">>
  ELSE IF ch = "+" THEN <<"%", "2", "0">>
  ELSE <<ch>>

RECURSIVE C11_EncodedFrom(_, _)
C11_EncodedFrom(path, i) ==
  IF i > Len(path) THEN << >>
  ELSE C11_Replacement(path[i]) \o C11_EncodedFrom(path, i + 1)

C11_Encoded(path) == C11_EncodedFrom(path, 1)

S_exampleEncoded ==
  <<"%", "2", "F", "a", "%", "3", "F", "b", "%", "3", "D", "c", "%", "2",
    "6", "d", "%", "2", "0", "e">>

\* C11: with room for the whole result and its terminator, encodePath leaves
\* in the buffer the path with each of / ? = & + replaced and every other
\* character copied in order; "/a?b=c&d+e" gives "%2Fa%3Fb%3Dc%26d%20e".
C11_EncodePathReplaces ==
  (last.op = "encodePath" /\ sizeArg > Len(C11_Encoded(textArg)))
    => /\ ret.text = C11_Encoded(textArg)
       /\ ret.ok
       /\ textArg = S_examplePath => ret.text = S_exampleEncoded

\* encodePath has encoded the example path into a buffer of 21 characters.
C11_Witness ==
  /\ last.op = "encodePath"
  /\ textArg = S_examplePath
  /\ sizeArg = Len(S_exampleEncoded) + 1
  /\ ret.text = S_exampleEncoded

(***************************************************************************)
(* C12.  isValidUUID.                                                      *)
(***************************************************************************)
C12_HexDigits ==
  {"0", "1", "2", "3", "4", "5", "6", "7", "8", "9",
   "a", "b", "c", "d", "e", "f", "A", "B", "C", "D", "E", "F"}

\* s has 36 characters, '-' at the 0-based positions 8, 13, 18 and 23 and a
\* hexadecimal digit everywhere else.
C12_WellFormed(s) ==
  /\ Len(s) = 36
  /\ \A i \in 0..35 :
       IF i \in {8, 13, 18, 23} THEN s[i + 1] = "-"
       ELSE s[i + 1] \in C12_HexDigits

\* C12: isValidUUID(s) is true exactly when s is well formed.
C12_ValidIffWellFormed ==
  last.op = "isValidUUID" => (ret.ok <=> C12_WellFormed(textArg))

\* isValidUUID has accepted a text with uppercase digits.
C12_Witness ==
  /\ last.op = "isValidUUID"
  /\ ret.ok
  /\ textArg = UUIDShaped("F")

(***************************************************************************)
(* C14.  The shape of a generated UUID.                                    *)
(***************************************************************************)
C14_LowerHexDigits ==
  {"0", "1", "2", "3", "4", "5", "6", "7", "8", "9",
   "a", "b", "c", "d", "e", "f"}

\* C14: generateUUID gives 36 characters, lowercase hexadecimal digits in
\* groups of 8, 4, 4, 4 and 12 separated by '-', with 4 as the first digit of
\* the third group and 8, 9, a or b (bits 10xx) as the first digit of the
\* fourth, and isValidUUID accepts the text.
C14_GeneratedShape ==
  last.op = "generateUUID"
    => /\ Len(ret.text) = 36
       /\ \A i \in 1..36 :
            IF i \in {9, 14, 19, 24} THEN ret.text[i] = "-"
            ELSE ret.text[i] \in C14_LowerHexDigits
       /\ ret.text[15] = "4"
       /\ ret.text[20] \in {"8", "9", "a", "b"}
       /\ isValidUUID(ret.text)

\* generateUUID has returned a text whose variant byte is bf, the highest
\* the masking can give.
C14_Witness ==
  /\ last.op = "generateUUID"
  /\ Len(ret.text) = 36
  /\ ret.text[20] = "b"
  /\ ret.text[21] = "f"
  /\ isValidUUID(ret.text)

(***************************************************************************)
(* C16.  as(T) follows the base-class chain.                               *)
(***************************************************************************)
\* Class a is class c or a class on c's base-class chain.
RECURSIVE C16_IsOrDerivesFrom(_, _)
C16_IsOrDerivesFrom(c, a) ==
  IF c = NULL THEN FALSE
  ELSE c = a \/ C16_IsOrDerivesFrom(BaseClass(c), a)

\* C16: as(T) returns the node when T is the tag of the node's class or of a
\* class on its base-class chain, and NULL otherwise, also for a NULL tag.
C16_AsFollowsBaseChain ==
  last.op = "as"
    => ret.node = IF last.arg # NULL
                     /\ C16_IsOrDerivesFrom(ClassOf(last.self), last.arg)
                  THEN last.self ELSE NULL

\* as(UPnPObject tag) on the CustomService has returned the service itself.
C16_Witness ==
  /\ last = [op |-> "as", self |-> "cs", arg |-> "UPnPObject"]
  /\ ret.node = "cs"

(***************************************************************************)
(* C17.  Class tags are pairwise different and never change.               *)
(***************************************************************************)
\* C17: the counter never decreases, an id once assigned stays, and no two
\* classes whose tag has been constructed have the same id.
C17_TagsUniqueAndStable ==
  [][/\ numTypes' >= numTypes
     /\ \A c \in Classes : typeID[c] # 0 => typeID'[c] = typeID[c]
     /\ \A c1, c2 \in Classes :
          (c1 # c2 /\ typeID'[c1] # 0) => typeID'[c1] # typeID'[c2]]_vars

\* Every class has its tag, with the ids 1..6.
C17_Witness ==
  /\ numTypes = Cardinality(Classes)
  /\ {typeID[c] : c \in Classes} = 1..Cardinality(Classes)
  /\ last.op = "ClassType"

(***************************************************************************)
(* C13.  setUUID applies a well-formed candidate and rejects any other.    *)
(***************************************************************************)
\* C13: a setUUID call with a well-formed candidate returns true and makes
\* the candidate the device's UUID; with any other candidate it returns
\* false and the device's UUID is what it was before the call.
C13_SetUUIDAppliesOnlyValid ==
  [][last'.op = "setUUID"
       => IF C12_WellFormed(textArg')
          THEN ret'.ok /\ uuid'[last'.self] = textArg'
          ELSE ~ret'.ok /\ uuid'[last'.self] = uuid[last'.self]]_vars

\* setUUID has rejected a candidate on a device that an earlier setUUID gave
\* the uppercase UUID, which the device still has.
C13_Witness ==
  /\ last.op = "setUUID"
  /\ ~ret.ok
  /\ ~C12_WellFormed(textArg)
  /\ uuid[last.self] = UUIDShaped("F")

(***************************************************************************)
(* C15.  getDevice looks at the root, then at its direct devices in order. *)
(***************************************************************************)
\* Device n matches the argument of the last lookup: by class tag when n's
\* class is or derives from the tagged class, by UUID when n's UUID is the
\* text looked up.
C15_Matches(n) ==
  IF last.op = "getDeviceByType"
  THEN last.arg # NULL /\ C16_IsOrDerivesFrom(ClassOf(n), last.arg)
  ELSE uuid[n] = textArg

\* The positions of the matching devices in the collection of root r.
C15_MatchingIndexes(r) ==
  {i \in 1..Len(devices[r]) : C15_Matches(devices[r][i])}

\* The root when it matches, else the matching device of lowest index in the
\* root's own collection, else NULL.
C15_Expected(r) ==
  IF C15_Matches(r) THEN r
  ELSE IF C15_MatchingIndexes(r) = {} THEN NULL
  ELSE devices[r][CHOOSE i \in C15_MatchingIndexes(r) :
                    \A j \in C15_MatchingIndexes(r) : i <= j]

\* C15: getDevice, by class tag or by UUID, returns the root when the root
\* matches, else the lowest-index matching device of the root's own
\* collection, else NULL; the result is NULL, the root or one of the root's
\* direct devices.
C15_GetDeviceRootThenChildren ==
  last.op \in LookupOps
    => /\ ret.node = C15_Expected(last.self)
       /\ ret.node \in {NULL, last.self} \cup Range(devices[last.self])

\* A lookup by UUID on a root that does not match and holds two matching
\* devices has returned the first of them.
C15_Witness ==
  /\ last.op = "getDeviceByUUID"
  /\ ~C15_Matches(last.self)
  /\ Cardinality(C15_MatchingIndexes(last.self)) = 2
  /\ devices[last.self][1] # devices[last.self][2]
  /\ ret.node = devices[last.self][1]

(***************************************************************************)
(* C20.  addDevice gives a UUID to a device without one.                   *)
(***************************************************************************)
\* addDevice(d) on a root with a free slot: a device whose UUID is empty
\* gets a well-formed UUID of version 4, any other keeps its UUID.
C20_AddDeviceStep ==
  LET r == last'.self
      d == last'.arg
  IN  (last'.op = "addDevice" /\ Len(devices[r]) < MAX_DEVICES)
        => IF uuid[d] = S_empty
           THEN C12_WellFormed(uuid'[d]) /\ uuid'[d][15] = "4"
           ELSE uuid'[d] = uuid[d]

\* Every root and every device in a root's collection has a well-formed
\* UUID.
C20_RootsAndTheirDevicesHaveUUID ==
  \A r \in Roots :
    /\ C12_WellFormed(uuid[r])
    /\ \A d \in Range(devices[r]) : C12_WellFormed(uuid[d])

\* C20: addDevice generates a valid UUID for a device that has none and
\* leaves the UUID of any other device alone, so every root and every
\* device held by a root always has a valid UUID.
C20_AttachedDevicesHaveValidUUID ==
  [][C20_AddDeviceStep]_vars /\ []C20_RootsAndTheirDevicesHaveUUID

\* A root holds a device whose UUID addDevice generated and a device that
\* kept the UUID setUUID gave it.
C20_Witness ==
  /\ last.op = "addDevice"
  /\ \E d \in Range(devices[last.self]) :
       uuid[d] \notin UUIDCandidates \cup {uuid[last.self]}
  /\ \E d \in Range(devices[last.self]) : uuid[d] \in UUIDCandidates

(***************************************************************************)
(* C19.  location is the URL of the node's path.                           *)
(***************************************************************************)
\* The node n and its ancestors.
RECURSIVE C19_Chain(_)
C19_Chain(n) ==
  IF parent[n] = NULL THEN {n} ELSE {n} \cup C19_Chain(parent[n])

\* "http://" + address + ":" + port of root r, where the port is the local
\* port of r's context, and 0 as long as r has none.
C19_Origin(r) ==
  S_http \o textArg \o S_colon
    \o FormatInt(IF context[r] # NULL THEN getLocalPort(context[r]) ELSE 0)

\* The last call was location, and its buffer had room to spare: nothing
\* was cut.
C19_LocationFits ==
  last.op = "location" /\ Len(ret.text) < sizeArg - 1

\* The location of a root, and the location of a node with a parent built
\* from the parent's.
C19_LocationByParent ==
  C19_LocationFits
    => LET n == last.self
       IN  /\ n \in Roots
                => ret.text = C19_Origin(n) \o S_slash \o target[n]
           /\ (n \notin Roots /\ parent[n] # NULL)
                => ret.text = location(World, parent[n], sizeArg, textArg)
                                \o S_slash \o target[n]

\* C19 as stated: besides, for every node in the tree of a root, location
\* is the origin of a root above the node followed by getPath(node).
C19_LocationIsOriginAndPath ==
  /\ C19_LocationByParent
  /\ (C19_LocationFits /\ C19_Chain(last.self) \cap Roots # {})
       => \E r \in C19_Chain(last.self) \cap Roots :
            ret.text = C19_Origin(r) \o PathOf(World, last.self)

\* C19 amended: location is the origin followed by getPath(node) for the
\* nodes whose chain of ancestors ends at a root without parent and holds
\* no other root.
C19_LocationIsOriginAndPathUnderTopRoot ==
  /\ C19_LocationByParent
  /\ C19_LocationFits
       => \A r \in C19_Chain(last.self) \cap Roots :
            (parent[r] = NULL /\ C19_Chain(last.self) \cap Roots = {r})
              => ret.text = C19_Origin(r) \o PathOf(World, last.self)

\* location of a service whose device is held by a root that has been set
\* up: the URL has the port of the context and the three targets.
C19_Witness ==
  /\ C19_LocationFits
  /\ last.self \in AllServices
  /\ parent[last.self] \in AllDevices \ Roots
  /\ parent[parent[last.self]] \in Roots
  /\ parent[parent[parent[last.self]]] = NULL
  /\ context[parent[parent[last.self]]] # NULL
  /\ ret.text = C19_Origin(parent[parent[last.self]])
                  \o PathOf(World, last.self)

(***************************************************************************)
(* C18.  The root content of a RootDevice: its devices in order, then      *)
(* itself.                                                                 *)
(***************************************************************************)
\* What formatRootContent of device d adds to a buffer that never fills:
\* the class's own fragment, and for a RootDevice the fragments of its
\* devices in attach order followed by its "This Device" control.
RECURSIVE C18_Output(_)
RECURSIVE C18_OutputOfDevices(_, _)
C18_OutputOfDevices(r, i) ==
  IF i > Len(devices[r]) THEN S_empty
  ELSE C18_Output(devices[r][i]) \o C18_OutputOfDevices(r, i + 1)

C18_Output(d) ==
  CASE ClassOf(d) = "RootDevice" ->
         C18_OutputOfDevices(d, 1)
           \o app_button(PathOf(World, d), S_ThisDevice)
    [] ClassOf(d) = "CustomDevice" -> root_html_template
    [] OTHER -> app_button(PathOf(World, d), getDisplayName(d))

\* C18: when the buffer has not filled, formatRootContent of a root has left
\* what was in the buffer, then the output of each of its devices in attach
\* order, then one "This Device" control with the root's own path, and
\* nothing else.
C18_DevicesInOrderThenThisDevice ==
  (last.op = "formatRootContent" /\ ret.pos < sizeArg - 1)
    => /\ ret.text = textArg \o C18_OutputOfDevices(last.self, 1)
                       \o app_button(PathOf(World, last.self), S_ThisDevice)
       /\ ret.pos = Len(ret.text)

\* A root holding a plain device, then a CustomDevice, then a nested root
\* has formatted its root content into the display buffer.
C18_Witness ==
  /\ last.op = "formatRootContent"
  /\ sizeArg = DISPLAY_SIZE
  /\ ret.pos < sizeArg - 1
  /\ Len(devices[last.self]) = 3
  /\ ClassOf(devices[last.self][1]) = "UPnPDevice"
  /\ ClassOf(devices[last.self][2]) = "CustomDevice"
  /\ ClassOf(devices[last.self][3]) = "RootDevice"

(***************************************************************************)
(* C24.  encodePath and the end of its buffer.                             *)
(***************************************************************************)
\* C24: for every path and every bufferSize >= 1, encodePath stores nothing
\* at or beyond buffer[bufferSize].
C24_EncodePathStaysInBuffer ==
  (last.op = "encodePath" /\ sizeArg >= 1) => ret.ok

(***************************************************************************)
(* C25.  service(i) and device(i) outside the attached entries.            *)
(***************************************************************************)
\* The i-th entry (0-based) of a collection, NULL for every other i.
C25_Entry(entries, i) ==
  IF 0 <= i /\ i < Len(entries) THEN entries[i + 1] ELSE NULL

\* C25: service(i) and device(i) return the i-th attached entry when
\* 0 <= i < the number of entries and NULL for every other i.
C25_AccessorsStayInside ==
  /\ last.op = "service"
       => ret.node = C25_Entry(services[last.self], sizeArg)
  /\ last.op = "device"
       => ret.node = C25_Entry(devices[last.self], sizeArg)

(***************************************************************************)
(* C22.  The seed of the random stream.                                    *)
(***************************************************************************)
\* C22: srand has run at most once, and no two generated UUIDs come from
\* the same position of the stream.
C22_SeededOnce ==
  /\ rng.seeds <= 1
  /\ \A d, e \in AllDevices :
       (d # e /\ rng.drawn[d] # NotDrawn /\ rng.drawn[e] # NotDrawn)
         => rng.drawn[d] # rng.drawn[e]

(***************************************************************************)
(* C21.  setTarget after the node has been wired.                          *)
(***************************************************************************)
\* Some handler of node m is registered.
C21_Wired(m) ==
  \E c \in Contexts : \E h \in BagToSet(routes[c]) : h.node = m

\* The ancestors of m, up to fuel steps up.
RECURSIVE C21_Ancestors(_, _)
C21_Ancestors(m, fuel) ==
  IF parent[m] = NULL \/ fuel = 0 THEN {}
  ELSE {parent[m]} \cup C21_Ancestors(parent[m], fuel - 1)

\* The step is a setTarget call on the wired node m or on an ancestor of m.
C21_RetargetsWired(m) ==
  /\ last'.op = "setTarget"
  /\ C21_Wired(m)
  /\ last'.self \in {m} \cup C21_Ancestors(m, Cardinality(Nodes))

\* getPath(m) after the step.
C21_PathAfter(m) == PathOf([World EXCEPT !.target = target'], m)

C23_TimesAttached(n) ==
  Cardinality({<<d, i>> \in AllDevices \X (1..MAX_SERVICES) :
                 i <= Len(services[d]) /\ services[d][i] = n})
    + Cardinality({<<r, i>> \in Roots \X (1..MAX_DEVICES) :
                     i <= Len(devices[r]) /\ devices[r][i] = n})

\* The root and the nodes below it.  With every node attached at most once
\* and r1 never attached, the collections form a tree.
RECURSIVE C23_Tree(_)
C23_Tree(n) ==
  {n} \cup (IF n \in AllDevices THEN Range(services[n]) ELSE {})
      \cup (IF n \in Roots
            THEN UNION {C23_Tree(devices[n][i]) : i \in 1..Len(devices[n])}
            ELSE {})

\* The handlers node n has registered for itself on context c, as a bag: the
\* fixed routes of a root are not among them.
C23_OwnHandlers(n, c) ==
  {h \in BagToSet(routes[c]) :
     h.node = n /\ h.method \in {"display", "handleRequest"}}

\* Node n is registered exactly once, on its path.
C23_RegisteredOnce(n, c) ==
  /\ C23_OwnHandlers(n, c)
       = {Handler(PathOf(World, n), n,
                  IF n \in AllDevices THEN "display" ELSE "handleRequest")}
  /\ \A h \in C23_OwnHandlers(n, c) : CopiesIn(h, routes[c]) = 1

\* Root r is the root the one setup call was made on: it holds a context
\* and is not held by a root that holds one.
C23_SetUp(r) ==
  /\ context[r] # NULL
  /\ parent[r] = NULL \/ parent[r] \notin Roots \/ context[parent[r]] = NULL

\* C23 as stated: after exactly one setup call, with every node attached at
\* most once, every node of the tree of the root that was set up is
\* registered exactly once, on its path.
C23_TreeRegisteredOnce ==
  (nSetup = 1 /\ \A n \in AllNodes : C23_TimesAttached(n) <= 1)
    => \A r \in Roots :
         C23_SetUp(r)
           => \A n \in C23_Tree(r) : C23_RegisteredOnce(n, context[r])

\* C23 amended: the same, for a root that has no parent.
C23_TreeOfTopRootRegisteredOnce ==
  (nSetup = 1 /\ \A n \in AllNodes : C23_TimesAttached(n) <= 1)
    => \A r \in Roots :
         (C23_SetUp(r) /\ parent[r] = NULL)
           => \A n \in C23_Tree(r) : C23_RegisteredOnce(n, context[r])

\* r1 was set up and then got the root r2, which held the device d1 with
\* the service s1: one attached before r2, r2 late.
C23_Witness ==
  /\ nSetup = 1
  /\ context["r1"] # NULL
  /\ last = [op |-> "addDevice", self |-> "r1", arg |-> "r2"]
  /\ devices["r1"] = <<"r2">>
  /\ devices["r2"] = <<"d1">>
  /\ services["d1"] = <<"s1">>
  /\ \A n \in C23_Tree("r1") : C23_RegisteredOnce(n, context["r1"])

(***************************************************************************)
(* C26.  One node per registered route.                                    *)
(***************************************************************************)
\* The two routes RootDevice::setup registers besides the root's own path.
C26_FixedPaths == {S_slash, S_styles}

\* The handlers registered on context c for a node's own path.
C26_NodeHandlers(c) ==
  {h \in BagToSet(routes[c]) : h.method \in {"display", "handleRequest"}}

\* The handlers registered on context c for the fixed routes.
C26_FixedHandlers(c) ==
  {h \in BagToSet(routes[c]) : h.method \in {"displayRoot", "styles"}}

\* No two different nodes are registered on the same path.
C26_OneNodePerPath ==
  \A c \in Contexts :
    \A h1, h2 \in C26_NodeHandlers(c) : h1.path = h2.path => h1.node = h2.node

\* No node is registered on one of the fixed routes.
C26_NoNodeOnFixedPath ==
  \A c \in Contexts :
    \A h \in C26_NodeHandlers(c) : h.path \notin C26_FixedPaths

\* Each fixed route is registered by one root only.
C26_OneRootPerFixedPath ==
  \A c \in Contexts :
    \A h1, h2 \in C26_FixedHandlers(c) : h1.path = h2.path => h1.node = h2.node

\* The tree was wired by one setup call and every node is attached at most
\* once.
C26_Wired == nSetup = 1 /\ \A n \in AllNodes : C23_TimesAttached(n) <= 1

\* C26 as stated: whatever targets were given, once the tree is wired by
\* one setup call (every node attached at most once) every route is
\* registered by at most one node and no node is registered on "/" or
\* "/styles.css".
C26_RoutesHaveOneNode ==
  C26_Wired
    => /\ C26_OneNodePerPath
       /\ C26_NoNodeOnFixedPath
       /\ C26_OneRootPerFixedPath

=============================================================================
